---- MODULE Spec2Model ----
(***************************************************************************)
(* Model of src/ingest_data.py: the DataIngestorFactory dispatch and the   *)
(* ZipDataIngestor.ingest flow over the fixed workspace "extracted_data". *)
(* Strings are sequences of one-character strings, so that splitext and   *)
(* endswith are computed character by character as the library does.      *)
(***************************************************************************)
EXTENDS Integers, Sequences, FiniteSets, TLC

(***************************************************************************)
(* Bounds.                                                                 *)
(***************************************************************************)
\* Longest path handed to the factory, counted in pieces of PathPieces.
MaxPieces == 4
\* Most entries in one archive.
MaxEntries == 2

(***************************************************************************)
(* Strings.                                                                *)
(***************************************************************************)
DotCsv == <<".", "c", "s", "v">>
DotJson == <<".", "j", "s", "o", "n">>
DotParquet == <<".", "p", "a", "r", "q", "u", "e", "t">>
DotZip == <<".", "z", "i", "p">>

\* str.rfind(c) + 1: the last position of c in s, 0 when c does not occur.
rfind(s, c) ==
    LET hits == {i \in 1..Len(s) : s[i] = c}
    IN IF hits = {} THEN 0 ELSE CHOOSE i \in hits : \A j \in hits : j <= i

\* str.endswith(suffix)
endswith(s, suffix) ==
    /\ Len(suffix) <= Len(s)
    /\ SubSeq(s, Len(s) - Len(suffix) + 1, Len(s)) = suffix

\* os.path.splitext(p): <<root, ext>>.  The extension starts at the last dot
\* of the last path component, unless that component has only dots before it.
splitext(p) ==
    LET sepIndex == rfind(p, "/")
        dotIndex == rfind(p, ".")
    IN IF /\ dotIndex > sepIndex
          /\ \E k \in (sepIndex + 1)..(dotIndex - 1) : p[k] # "."
       THEN <<SubSeq(p, 1, dotIndex - 1), SubSeq(p, dotIndex, Len(p))>>
       ELSE <<p, <<>>>>

\* os.path.join(a, b) for a relative b
join(a, b) == a \o <<"/">> \o b

(***************************************************************************)
(* The two class tables.                                                   *)
(***************************************************************************)
\* ZipDataIngestor.SUPPORTED_FORMATS
SUPPORTED_FORMATS ==
    (DotCsv :> "CSVDataIngestor") @@ (DotJson :> "JSONDataIngestor")
        @@ (DotParquet :> "ParquetDataIngestor")

\* DataIngestorFactory.INGESTORS
INGESTORS ==
    (DotCsv :> "CSVDataIngestor") @@ (DotJson :> "JSONDataIngestor")
        @@ (DotParquet :> "ParquetDataIngestor") @@ (DotZip :> "ZipDataIngestor")

\* The extension lookup of the factory: file_extension not in INGESTORS
FactoryKnows(file_extension) == file_extension \in DOMAIN INGESTORS

\* str.lower() on the letters the model's paths use.
LowerChar(c) ==
    CASE c = "C" -> "c" [] c = "S" -> "s" [] c = "V" -> "v"
      [] c = "Z" -> "z" [] c = "I" -> "i" [] c = "P" -> "p"
      [] c = "A" -> "a" [] OTHER -> c

Lower(s) == [i \in 1..Len(s) |-> LowerChar(s[i])]

\* Variant: the table is searched by path suffix instead of by extension.
get_data_ingestor_BySuffix(file_path) ==
    LET file_extension == splitext(file_path)[2]
        hits == {e \in DOMAIN INGESTORS : endswith(file_path, e)}
    IN IF hits = {}
       THEN [kind |-> "ValueError", cls |-> "none", ext |-> file_extension]
       ELSE [kind |-> "ingestor", cls |-> INGESTORS[CHOOSE e \in hits : TRUE],
             ext |-> CHOOSE e \in hits : TRUE]

\* Variant: the extension is lower-cased before the lookup.
get_data_ingestor_Lowered(file_path) ==
    LET file_extension == Lower(splitext(file_path)[2])
    IN IF ~FactoryKnows(file_extension)
       THEN [kind |-> "ValueError", cls |-> "none", ext |-> file_extension]
       ELSE [kind |-> "ingestor", cls |-> INGESTORS[file_extension],
             ext |-> file_extension]

\* DataIngestorFactory.get_data_ingestor(file_path): the class instantiated,
\* or the ValueError with the extension its message names.
get_data_ingestor(file_path) ==
    LET file_extension == splitext(file_path)[2]
    IN IF ~FactoryKnows(file_extension)
       THEN [kind |-> "ValueError", cls |-> "none", ext |-> file_extension]
       ELSE [kind |-> "ingestor", cls |-> INGESTORS[file_extension],
             ext |-> file_extension]

\* str.__contains__: sub occurs somewhere in s.
contains(s, sub) ==
    \E i \in 1..(Len(s) - Len(sub) + 1) : SubSeq(s, i, i + Len(sub) - 1) = sub

\* Variant: ".zip" is looked for anywhere in the path.
NotAZipPath_Anywhere(file_path) == ~contains(file_path, DotZip)

\* The first check of ZipDataIngestor.ingest: TRUE when the path is rejected.
NotAZipPath(file_path) == ~endswith(file_path, DotZip)

(***************************************************************************)
(* Archives and the extraction workspace.                                  *)
(***************************************************************************)
a_csv == <<"a", ".", "c", "s", "v">>
b_json == <<"b", ".", "j", "s", "o", "n">>
c_parquet == <<"c", ".", "p", "a", "r", "q", "u", "e", "t">>
n_txt == <<"n", ".", "t", "x", "t">>
A_CSV == <<"A", ".", "C", "S", "V">>
i_zip == <<"i", ".", "z", "i", "p">>
d_a_csv == <<"d", "/", "a", ".", "c", "s", "v">>

data_zip == <<"d", ".", "z", "i", "p">>
data_rar == <<"d", ".", "r", "a", "r">>
data_zip_bak == <<"d", ".", "z", "i", "p", ".", "b", "a", "k">>

\* file_name=None
None == <<>>

\* extraction_path = "extracted_data"
extraction_path ==
    <<"e", "x", "t", "r", "a", "c", "t", "e", "d", "_", "d", "a", "t", "a">>

\* What a file holds: bytes its format's reader parses ("good") or rejects
\* ("bad").  Only the members named in mayBeBad come in both.
ContentsOf(n, mayBeBad) == IF n \in mayBeBad THEN {"good", "bad"} ELSE {"good"}

NoFiles == [n \in {} |-> "good"]

\* The archives over a set of member names: a readable archive maps each
\* member to its content; an unopenable one makes zipfile.ZipFile raise.
ArchivesOver(names, mayBeBad, maxEntries) ==
    {[kind |-> "ok", files |-> f] :
        f \in UNION {{g \in [S -> {"good", "bad"}] :
                          \A n \in S : g[n] \in ContentsOf(n, mayBeBad)} :
                        S \in {T \in SUBSET names : Cardinality(T) <= maxEntries}}}
    \cup {[kind |-> "unopenable", files |-> NoFiles]}

\* zip_ref.extractall(extraction_path): every member is written below the
\* workspace, replacing a file of the same name; the directory is created
\* with the first member, so an archive with no member creates nothing.
extractall(exists, files, arch) ==
    IF DOMAIN arch.files = {}
    THEN [exists |-> exists, files |-> files]
    ELSE [exists |-> TRUE, files |-> arch.files @@ files]

\* The first component of a relative path.
TopComponent(n) ==
    LET seps == {i \in 1..Len(n) : n[i] = "/"}
    IN IF seps = {} THEN n
       ELSE SubSeq(n, 1, (CHOOSE i \in seps : \A j \in seps : i <= j) - 1)

\* os.listdir(extraction_path): the names directly below the workspace.
listdir(files) == {TopComponent(n) : n \in DOMAIN files}

\* [f for f in extracted_files if os.path.splitext(f)[1] in SUPPORTED_FORMATS]
SupportedOf(extracted_files) ==
    {f \in extracted_files : splitext(f)[2] \in DOMAIN SUPPORTED_FORMATS}

\* Variant: the first supported file is taken whatever file_name says.
SelectedFile_First(supported, name) == CHOOSE f \in supported : TRUE

\* selected_file = file_name if file_name else supported_files[0]
SelectedFile(supported, name) ==
    IF name # None THEN name ELSE CHOOSE f \in supported : TRUE

\* Variant: the test that the selected file is among the supported ones
\* is missing.
Decide_NoMembershipTest(supported, name) ==
    IF supported = {} THEN "FileNotFoundError_nosupported"
    ELSE IF Cardinality(supported) > 1 /\ name = None THEN "ValueError_multiple"
    ELSE "read"

\* The three tests between listing and reading, in the code's order.
Decide(supported, name) ==
    IF supported = {} THEN "FileNotFoundError_nosupported"
    ELSE IF Cardinality(supported) > 1 /\ name = None THEN "ValueError_multiple"
    ELSE IF SelectedFile(supported, name) \notin supported
         THEN "FileNotFoundError_notfound"
    ELSE "read"

\* self.SUPPORTED_FORMATS[selected_ext]
IngestorClassFor(selected) == SUPPORTED_FORMATS[splitext(selected)[2]]

\* A format loader's ingest(path): the table of the file at that path, or
\* the reader's error when the file is missing or its bytes do not parse.
LoaderIngest(exists, files, path) ==
    LET here == {n \in DOMAIN files : join(extraction_path, n) = path}
    IN IF ~exists \/ here = {}
       THEN [kind |-> "FileNotFoundError_read", df |-> None]
       ELSE LET n == CHOOSE m \in here : TRUE
            IN IF files[n] = "good"
               THEN [kind |-> "ok", df |-> n]
               ELSE [kind |-> "ParseError", df |-> None]

(***************************************************************************)
(* State.                                                                  *)
(***************************************************************************)
VARIABLES
    wsExists,        \* whether the directory extracted_data exists
    wsFiles,         \* relative path -> content, the files below it
    pc,              \* per caller: where its ingest call stands
    file_path,       \* per caller: the argument file_path
    archive,         \* per caller: what the file at file_path holds
    file_name,       \* per caller: the argument file_name
    supported_files, \* per caller: the local supported_files
    selected_file,   \* per caller: the local selected_file
    ingestor_class,  \* per caller: the local ingestor_class
    outcome,         \* per caller: how the call ended
    loads,           \* per caller: the format-loader calls made by this call
    opened,          \* per caller: whether this call reached zipfile.ZipFile
    wsBefore,        \* per caller: the workspace when the call started
    disturbed,       \* per caller: another call changed the workspace meanwhile
    fpc,             \* the factory caller's position
    fpath,           \* the path handed to the factory
    fres,            \* what get_data_ingestor returned or raised
    frejected        \* whether the returned ingestor's own path check rejected

wsVars == <<wsExists, wsFiles>>
argVars == <<file_path, archive, file_name>>
localVars == <<supported_files, selected_file, ingestor_class>>
ghostVars == <<opened, wsBefore, disturbed>>
zipVars == <<wsVars, pc, argVars, localVars, outcome, loads, ghostVars>>
factoryVars == <<fpc, fpath, fres, frejected>>
vars == <<zipVars, factoryVars>>

Procs == {1, 2}

NoOutcome == [kind |-> "none", candidates |-> {}, df |-> None]

Raised(kind, candidates) == [kind |-> kind, candidates |-> candidates, df |-> None]

\* The other callers in the middle of a call see the workspace change.
Disturb(p) ==
    [q \in Procs |-> IF q # p /\ pc[q] \notin {"idle", "done"}
                     THEN TRUE ELSE disturbed[q]]

InitZip ==
    /\ wsExists = FALSE
    /\ wsFiles = NoFiles
    /\ pc = [p \in Procs |-> "idle"]
    /\ file_path = [p \in Procs |-> None]
    /\ archive = [p \in Procs |-> [kind |-> "unopenable", files |-> NoFiles]]
    /\ file_name = [p \in Procs |-> None]
    /\ supported_files = [p \in Procs |-> {}]
    /\ selected_file = [p \in Procs |-> None]
    /\ ingestor_class = [p \in Procs |-> "none"]
    /\ outcome = [p \in Procs |-> NoOutcome]
    /\ loads = [p \in Procs |-> <<>>]
    /\ opened = [p \in Procs |-> FALSE]
    /\ wsBefore = [p \in Procs |-> [exists |-> FALSE, files |-> NoFiles]]
    /\ disturbed = [p \in Procs |-> FALSE]

InitFactoryIdle ==
    /\ fpc = "idle"
    /\ fpath = None
    /\ fres = [kind |-> "none", cls |-> "none", ext |-> None]
    /\ frejected = FALSE

(***************************************************************************)
(* ZipDataIngestor.ingest, one action per filesystem step.                 *)
(***************************************************************************)
\* The call itself: ingest(file_path, file_name) with the archive found at
\* file_path, by a caller that is in no call.
Call(p, paths, archives, names) ==
    /\ pc[p] = "idle"
    /\ \E fp \in paths, ar \in archives, fn \in names :
        /\ file_path' = [file_path EXCEPT ![p] = fp]
        /\ archive' = [archive EXCEPT ![p] = ar]
        /\ file_name' = [file_name EXCEPT ![p] = fn]
    /\ pc' = [pc EXCEPT ![p] = "check"]
    /\ supported_files' = [supported_files EXCEPT ![p] = {}]
    /\ selected_file' = [selected_file EXCEPT ![p] = None]
    /\ ingestor_class' = [ingestor_class EXCEPT ![p] = "none"]
    /\ outcome' = [outcome EXCEPT ![p] = NoOutcome]
    /\ loads' = [loads EXCEPT ![p] = <<>>]
    /\ opened' = [opened EXCEPT ![p] = FALSE]
    /\ wsBefore' = [wsBefore EXCEPT ![p] = [exists |-> wsExists, files |-> wsFiles]]
    /\ disturbed' = [disturbed EXCEPT ![p] = FALSE]
    /\ UNCHANGED <<wsVars, factoryVars>>

\* if not file_path.endswith(".zip"): raise ValueError
CheckZip(p) ==
    /\ pc[p] = "check"
    /\ IF NotAZipPath(file_path[p])
       THEN /\ outcome' = [outcome EXCEPT ![p] = Raised("ValueError_notzip", {})]
            /\ pc' = [pc EXCEPT ![p] = "done"]
       ELSE /\ pc' = [pc EXCEPT ![p] = "extract"]
            /\ UNCHANGED outcome
    /\ UNCHANGED <<wsVars, argVars, localVars, loads, ghostVars, factoryVars>>

\* with zipfile.ZipFile(file_path, "r") as zip_ref: zip_ref.extractall(...)
\* except Exception: raise
Extract(p) ==
    /\ pc[p] = "extract"
    /\ IF archive[p].kind = "unopenable"
       THEN /\ outcome' = [outcome EXCEPT ![p] = Raised("ExtractError", {})]
            /\ pc' = [pc EXCEPT ![p] = "done"]
            /\ UNCHANGED <<wsVars, disturbed>>
       ELSE /\ LET after == extractall(wsExists, wsFiles, archive[p])
               IN /\ wsExists' = after.exists
                  /\ wsFiles' = after.files
            /\ disturbed' = Disturb(p)
            /\ pc' = [pc EXCEPT ![p] = "list"]
            /\ UNCHANGED outcome
    /\ opened' = [opened EXCEPT ![p] = TRUE]
    /\ UNCHANGED <<argVars, localVars, loads, wsBefore, factoryVars>>

\* extracted_files = os.listdir(extraction_path); supported_files = [...]
List(p) ==
    /\ pc[p] = "list"
    /\ IF ~wsExists
       THEN /\ outcome' = [outcome EXCEPT ![p] = Raised("FileNotFoundError_listdir", {})]
            /\ pc' = [pc EXCEPT ![p] = "done"]
            /\ UNCHANGED supported_files
       ELSE /\ supported_files' =
                  [supported_files EXCEPT ![p] = SupportedOf(listdir(wsFiles))]
            /\ pc' = [pc EXCEPT ![p] = "select"]
            /\ UNCHANGED outcome
    /\ UNCHANGED <<wsVars, argVars, selected_file, ingestor_class, loads,
                   ghostVars, factoryVars>>

\* The three tests on supported_files; each failing one removes the
\* workspace (shutil.rmtree, which itself raises when it is already gone)
\* and raises.  Otherwise selected_file and ingestor_class are set.
Select(p) ==
    /\ pc[p] = "select"
    /\ LET verdict == Decide(supported_files[p], file_name[p])
       IN IF verdict = "read"
          THEN /\ selected_file' = [selected_file EXCEPT ![p] =
                      SelectedFile(supported_files[p], file_name[p])]
               /\ ingestor_class' = [ingestor_class EXCEPT ![p] =
                      IngestorClassFor(SelectedFile(supported_files[p], file_name[p]))]
               /\ pc' = [pc EXCEPT ![p] = "read"]
               /\ UNCHANGED <<wsVars, outcome, disturbed>>
          ELSE /\ outcome' = [outcome EXCEPT ![p] =
                      IF wsExists THEN Raised(verdict, supported_files[p])
                      ELSE Raised("FileNotFoundError_rmtree", {})]
               /\ wsExists' = FALSE
               /\ wsFiles' = NoFiles
               /\ disturbed' = IF wsExists THEN Disturb(p) ELSE disturbed
               /\ pc' = [pc EXCEPT ![p] = "done"]
               /\ UNCHANGED <<selected_file, ingestor_class>>
    /\ UNCHANGED <<argVars, supported_files, loads, opened, wsBefore,
                   factoryVars>>

\* df = ingestor_class.ingest(os.path.join(extraction_path, selected_file))
\* except Exception: raise;  return df
Read(p) ==
    /\ pc[p] = "read"
    /\ LET path == join(extraction_path, selected_file[p])
           got == LoaderIngest(wsExists, wsFiles, path)
       IN /\ loads' = [loads EXCEPT ![p] =
                 Append(@, [cls |-> ingestor_class[p], path |-> path])]
          /\ outcome' = [outcome EXCEPT ![p] =
                 [kind |-> got.kind, candidates |-> {}, df |-> got.df]]
    /\ pc' = [pc EXCEPT ![p] = "done"]
    /\ UNCHANGED <<wsVars, argVars, localVars, ghostVars, factoryVars>>

\* The call is over (returned or raised): its frame is gone, the workspace
\* stays as the call left it, and the caller may call again.
Return(p) ==
    /\ pc[p] = "done"
    /\ pc' = [pc EXCEPT ![p] = "idle"]
    /\ file_path' = [file_path EXCEPT ![p] = None]
    /\ archive' = [archive EXCEPT ![p] = [kind |-> "unopenable", files |-> NoFiles]]
    /\ file_name' = [file_name EXCEPT ![p] = None]
    /\ supported_files' = [supported_files EXCEPT ![p] = {}]
    /\ selected_file' = [selected_file EXCEPT ![p] = None]
    /\ ingestor_class' = [ingestor_class EXCEPT ![p] = "none"]
    /\ outcome' = [outcome EXCEPT ![p] = NoOutcome]
    /\ loads' = [loads EXCEPT ![p] = <<>>]
    /\ opened' = [opened EXCEPT ![p] = FALSE]
    /\ wsBefore' = [wsBefore EXCEPT ![p] = [exists |-> FALSE, files |-> NoFiles]]
    /\ disturbed' = [disturbed EXCEPT ![p] = FALSE]
    /\ UNCHANGED <<wsVars, factoryVars>>

Step(p) == CheckZip(p) \/ Extract(p) \/ List(p) \/ Select(p) \/ Read(p)

(***************************************************************************)
(* One caller, call after call.                                            *)
(***************************************************************************)
EntryNames == {a_csv, b_json, c_parquet, n_txt, A_CSV, i_zip, d_a_csv}
SeqPaths == {data_zip, data_rar, data_zip_bak}
SeqArchives == ArchivesOver(EntryNames, {a_csv, b_json}, MaxEntries)
SeqNames == EntryNames \cup {None}

Init == InitZip /\ InitFactoryIdle

Next == Call(1, SeqPaths, SeqArchives, SeqNames) \/ Step(1) \/ Return(1)

Spec == Init /\ [][Next]_vars

(***************************************************************************)
(* Two callers, one call each, on the one workspace.  Nothing in the code  *)
(* orders their steps.                                                     *)
(***************************************************************************)
ConcEntryNames == {a_csv, b_json, n_txt}
ConcPaths == {data_zip, data_rar}
ConcArchives == ArchivesOver(ConcEntryNames, {a_csv}, MaxEntries)
ConcNames == {None, a_csv, b_json}

\* A caller's only call: it starts from the frame Init gave it.
FirstCall(p) ==
    /\ outcome[p].kind = "none"
    /\ Call(p, ConcPaths, ConcArchives, ConcNames)

NextConc == \E p \in Procs : FirstCall(p) \/ Step(p)

SpecConc == Init /\ [][NextConc]_vars

(***************************************************************************)
(* The factory, called as __main__ calls it: get_data_ingestor(file_path), *)
(* then ingest(file_path, file_name=None) on what it returned.             *)
(***************************************************************************)
PathPieces ==
    {<<"x">>, <<".">>, <<"/">>, <<"c", "s", "v">>, <<"j", "s", "o", "n">>,
     <<"p", "a", "r", "q", "u", "e", "t">>, <<"z", "i", "p">>,
     <<"C", "S", "V">>, <<"Z", "I", "P">>, <<"t", "x", "t">>}

RECURSIVE PathsUpTo(_)
PathsUpTo(k) ==
    IF k = 0 THEN {<<>>}
    ELSE LET shorter == PathsUpTo(k - 1)
         IN shorter \cup {p \o q : p \in shorter, q \in PathPieces}

FactoryPaths == PathsUpTo(MaxPieces)

InitFactory ==
    /\ InitZip
    /\ fpc = "start"
    /\ fpath \in FactoryPaths
    /\ fres = [kind |-> "none", cls |-> "none", ext |-> None]
    /\ frejected = FALSE

\* data_ingestor = DataIngestorFactory.get_data_ingestor(file_path)
FactoryCall ==
    /\ fpc = "start"
    /\ fres' = get_data_ingestor(fpath)
    /\ fpc' = IF fres'.kind = "ingestor" THEN "got" ELSE "failed"
    /\ UNCHANGED <<fpath, frejected, zipVars>>

\* df = data_ingestor.ingest(file_path, file_name=None): for the archive
\* ingestor this starts with its own check of the path; the format loaders
\* check nothing.
MainIngest ==
    /\ fpc = "got"
    /\ frejected' = IF fres.cls = "ZipDataIngestor" THEN NotAZipPath(fpath)
                    ELSE FALSE
    /\ fpc' = "ingested"
    /\ UNCHANGED <<fpath, fres, zipVars>>

NextFactory == FactoryCall \/ MainIngest

SpecFactory == InitFactory /\ [][NextFactory]_vars

(***************************************************************************)
(* Vocabulary of the properties.                                           *)
(***************************************************************************)
\* The last component of a path: what follows its last separator.
LastComponent(p) == SubSeq(p, rfind(p, "/") + 1, Len(p))

\* A path's extension: the part of its last component from that component's
\* last dot on, when something other than dots comes before that dot;
\* otherwise the path has no extension.
ExtensionOf(p) ==
    LET c == LastComponent(p)
        d == rfind(c, ".")
    IN IF d > 1 /\ \E k \in 1..(d - 1) : c[k] # "."
       THEN SubSeq(c, d, Len(c))
       ELSE <<>>

\* The loader each supported extension stands for.
LoaderOf(ext) ==
    CASE ext = DotCsv -> "CSVDataIngestor"
      [] ext = DotJson -> "JSONDataIngestor"
      [] ext = DotParquet -> "ParquetDataIngestor"
      [] ext = DotZip -> "ZipDataIngestor"
      [] OTHER -> "none"

IsSupportedEntry(n) == ExtensionOf(n) \in {DotCsv, DotJson, DotParquet}
IsTopLevel(n) == \A i \in 1..Len(n) : n[i] # "/"
Entries(p) == DOMAIN archive[p].files
SupportedEntries(p) == {n \in Entries(p) : IsSupportedEntry(n)}

Done(p) == pc[p] = "done"
\* A finished call on a path ending in ".zip" whose archive could be opened.
DoneOnArchive(p) ==
    /\ Done(p)
    /\ endswith(file_path[p], DotZip)
    /\ archive[p].kind = "ok"

IsFileNotFound(kind) ==
    kind \in {"FileNotFoundError_listdir", "FileNotFoundError_nosupported",
              "FileNotFoundError_notfound", "FileNotFoundError_rmtree",
              "FileNotFoundError_read"}

\* The one loader call a call is meant to make for entry n.
LoadOf(n) == [cls |-> LoaderOf(ExtensionOf(n)), path |-> join(extraction_path, n)]

\* What that loader call yields for content c.
LoadResult(n, c) ==
    IF c = "good" THEN [kind |-> "ok", candidates |-> {}, df |-> n]
    ELSE [kind |-> "ParseError", candidates |-> {}, df |-> None]

(***************************************************************************)
(* C1.                                                                     *)
(***************************************************************************)
\* C1: get_data_ingestor returns the CSV, JSON, Parquet or Zip ingestor
\* exactly when the path's extension is .csv, .json, .parquet or .zip
\* (case-sensitive), and for every other extension raises the ValueError
\* naming that extension; the extension alone decides.
C1_FactoryDispatch ==
    fpc # "start" =>
        LET e == ExtensionOf(fpath)
        IN IF e \in {DotCsv, DotJson, DotParquet, DotZip}
           THEN fres = [kind |-> "ingestor", cls |-> LoaderOf(e), ext |-> e]
           ELSE fres = [kind |-> "ValueError", cls |-> "none", ext |-> e]

\* An upper-case .CSV path was refused, with ".CSV" in the message.
C1_Witness ==
    /\ fpc = "failed"
    /\ fres.kind = "ValueError"
    /\ fres.ext = <<".", "C", "S", "V">>
    /\ Len(fpath) > 4

(***************************************************************************)
(* C10.                                                                    *)
(***************************************************************************)
\* C10: whenever the factory returned a ZipDataIngestor for a path, that
\* ingestor's own first check accepts the same path.
C10_FactoryZipAccepted ==
    (fpc = "ingested" /\ fres.cls = "ZipDataIngestor") => ~frejected

\* The factory chose the archive ingestor for a path with a directory part
\* and two dots, and the ingestor's check let it through.
C10_Witness ==
    /\ fpc = "ingested"
    /\ fres.cls = "ZipDataIngestor"
    /\ ~frejected
    /\ rfind(fpath, "/") > 0
    /\ Len(fpath) > 6

(***************************************************************************)
(* C2 - C8: one caller, call after call (Spec).                            *)
(***************************************************************************)
\* C2: a call with no file_name on a readable archive with exactly one
\* supported entry loads that entry with the matching loader and succeeds,
\* whatever earlier calls left in the workspace.  (Read in the claim's
\* favour: the entry lies at the archive's top level and its bytes parse.)
C2_SoleEntryAlwaysLoads ==
    \A n \in EntryNames :
        (/\ DoneOnArchive(1)
         /\ file_name[1] = None
         /\ SupportedEntries(1) = {n}
         /\ IsTopLevel(n)
         /\ archive[1].files[n] = "good")
        => /\ outcome[1] = LoadResult(n, "good")
           /\ loads[1] = <<LoadOf(n)>>

\* C3: a call naming a file that is no entry of its archive fails with
\* FileNotFoundError, the candidate list being the archive's supported
\* entries, calls no loader and removes the workspace, whatever earlier
\* calls left there.  (Read in the claim's favour: a flat archive, and any
\* FileNotFoundError counts; the candidate list is compared when the error
\* carries one.)
C3_AbsentNameAlwaysNotFound ==
    (/\ DoneOnArchive(1)
     /\ file_name[1] # None
     /\ file_name[1] \notin Entries(1)
     /\ \A n \in Entries(1) : IsTopLevel(n))
    => /\ IsFileNotFound(outcome[1].kind)
       /\ outcome[1].kind = "FileNotFoundError_notfound"
            => outcome[1].candidates = SupportedEntries(1)
       /\ loads[1] = <<>>
       /\ ~wsExists

\* C4: a call with no file_name on an archive with two or more supported
\* entries fails with the ambiguity ValueError listing exactly those
\* entries, calls no loader, and leaves no workspace.  (Read in the claim's
\* favour: a flat archive.)
C4_AmbiguousListsExactlyTheEntries ==
    (/\ DoneOnArchive(1)
     /\ file_name[1] = None
     /\ Cardinality(SupportedEntries(1)) >= 2
     /\ \A n \in Entries(1) : IsTopLevel(n))
    => /\ outcome[1].kind = "ValueError_multiple"
       /\ outcome[1].candidates = SupportedEntries(1)
       /\ loads[1] = <<>>
       /\ ~wsExists

\* What C5 promises of a finished call that named entry file_name: exactly
\* one loader call, by the loader of file_name's extension, on file_name's
\* path in the workspace, and that call's result is the call's result.
C5_Promise ==
    /\ loads[1] = <<LoadOf(file_name[1])>>
    /\ outcome[1] = LoadResult(file_name[1], archive[1].files[file_name[1]])

\* C5 as stated: on an archive with several supported entries and a
\* file_name equal to one of them, the loader of file_name's extension is
\* called exactly once, on file_name's path, and its result is returned.
C5_NamedEntryIsLoaded ==
    (/\ DoneOnArchive(1)
     /\ Cardinality(SupportedEntries(1)) >= 2
     /\ file_name[1] \in SupportedEntries(1))
    => C5_Promise

\* C5 amended: the same, for a file_name that lies at the archive's top
\* level (no directory part).
C5_NamedTopLevelEntryIsLoaded ==
    (/\ DoneOnArchive(1)
     /\ Cardinality(SupportedEntries(1)) >= 2
     /\ file_name[1] \in SupportedEntries(1)
     /\ IsTopLevel(file_name[1]))
    => C5_Promise

\* b.json was named beside a.csv and loaded, although the workspace still
\* held a b.json and an a.csv from an earlier call.
C5_Witness ==
    /\ DoneOnArchive(1)
    /\ Entries(1) = {a_csv, b_json}
    /\ file_name[1] = b_json
    /\ wsBefore[1].exists
    /\ {a_csv, b_json} \subseteq DOMAIN wsBefore[1].files
    /\ wsBefore[1].files[b_json] = "bad"
    /\ outcome[1].kind = "ok"
    /\ outcome[1].df = b_json
    /\ loads[1] = <<[cls |-> "JSONDataIngestor", path |-> join(extraction_path, b_json)]>>

\* C6: a call whose path does not end in ".zip" fails with the ValueError of
\* the first check, without opening the archive, calling a loader, or
\* touching the workspace: it is as it was when the call started.
C6_NonZipRejectedUntouched ==
    (Done(1) /\ ~endswith(file_path[1], DotZip))
    => /\ outcome[1].kind = "ValueError_notzip"
       /\ ~opened[1]
       /\ loads[1] = <<>>
       /\ wsExists = wsBefore[1].exists
       /\ wsFiles = wsBefore[1].files

\* data.rar, which holds a readable archive, was refused while the workspace
\* of an earlier call was in place, and the workspace is still there.
C6_Witness ==
    /\ Done(1)
    /\ file_path[1] = data_rar
    /\ archive[1].kind = "ok"
    /\ Entries(1) # {}
    /\ outcome[1].kind = "ValueError_notzip"
    /\ wsExists
    /\ wsBefore[1].exists
    /\ DOMAIN wsFiles # {}

\* C7: a call on an archive with no entry of extension exactly .csv, .json
\* or .parquet fails with FileNotFoundError, calls no loader, and leaves no
\* workspace.
C7_NoSupportedEntryNotFound ==
    (DoneOnArchive(1) /\ SupportedEntries(1) = {})
    => /\ IsFileNotFound(outcome[1].kind)
       /\ loads[1] = <<>>
       /\ ~wsExists

\* C8: after a call that failed at or after extraction (extraction failure,
\* no supported entry, ambiguity, name not found, loader failure) the
\* workspace does not exist; after a successful call it exists and holds
\* the archive's files.
C8_WorkspaceGoneAfterEveryFailure ==
    Done(1) =>
        /\ outcome[1].kind \in {"ExtractError", "FileNotFoundError_listdir",
                                "FileNotFoundError_nosupported",
                                "ValueError_multiple",
                                "FileNotFoundError_notfound",
                                "ParseError", "FileNotFoundError_read"}
             => ~wsExists
        /\ outcome[1].kind = "ok"
             => /\ wsExists
                /\ \A n \in Entries(1) :
                     n \in DOMAIN wsFiles /\ wsFiles[n] = archive[1].files[n]

(***************************************************************************)
(* C9: two callers on the one workspace (SpecConc).                        *)
(***************************************************************************)
\* How the call ingest(fp, fn) on archive ar ends when it runs alone on a
\* workspace that does not exist: the reference the racing calls are
\* compared with.
AloneOutcome(fp, ar, fn) ==
    LET top == {TopComponent(n) : n \in DOMAIN ar.files}
        cands == {n \in top : IsSupportedEntry(n)}
        chosen == IF fn # None THEN fn ELSE CHOOSE n \in cands : TRUE
    IN IF ~endswith(fp, DotZip) THEN Raised("ValueError_notzip", {})
       ELSE IF ar.kind # "ok" THEN Raised("ExtractError", {})
       ELSE IF top = {} THEN Raised("FileNotFoundError_listdir", {})
       ELSE IF cands = {} THEN Raised("FileNotFoundError_nosupported", {})
       ELSE IF Cardinality(cands) > 1 /\ fn = None
            THEN Raised("ValueError_multiple", cands)
       ELSE IF chosen \notin cands THEN Raised("FileNotFoundError_notfound", cands)
       ELSE LoadResult(chosen, ar.files[chosen])

Alone(p) == AloneOutcome(file_path[p], archive[p], file_name[p])

\* C9: the calls share the workspace and nothing else: a call ends differently
\* from the same call run alone on an empty workspace only when it found the
\* other call's workspace at its start or the other call extracted into or
\* removed the workspace while it ran.
C9_DivergenceOnlyThroughTheWorkspace ==
    \A p \in Procs :
        (Done(p) /\ ~wsBefore[p].exists /\ ~disturbed[p])
        => outcome[p] = Alone(p)

\* Both calls started on an absent workspace and each would load its sole
\* entry alone.  Together: call 1 listed call 2's b.json beside its own
\* a.csv and failed as ambiguous, and its removal of the workspace took
\* b.json away between call 2's listing and reading, so the loader failed.
C9_Witness ==
    /\ Done(1) /\ Done(2)
    /\ ~wsBefore[1].exists /\ ~wsBefore[2].exists
    /\ file_name[1] = None /\ file_name[2] = None
    /\ Entries(1) = {a_csv} /\ Entries(2) = {b_json}
    /\ Alone(1).kind = "ok" /\ Alone(2).kind = "ok"
    /\ outcome[1].kind = "ValueError_multiple"
    /\ outcome[1].candidates = {a_csv, b_json}
    /\ outcome[2].kind = "FileNotFoundError_read"
    /\ loads[2] = <<LoadOf(b_json)>>

====
